---- MODULE Spec2Model ----
(***************************************************************************)
(* H5PEditor.SemanticStructure (scripts/h5peditor-semantic-structure.js):  *)
(* the base class of a semantic field.  One instance is modelled, from the *)
(* call of its constructor to its teardown, together with the calls it     *)
(* makes to its collaborators (the widget classes of the H5PEditor         *)
(* namespace, the widget instances, the event dispatcher).                 *)
(***************************************************************************)
EXTENDS Integers, Sequences, FiniteSets

\* ------------------------------------------------------------------ bounds
MaxWidgets == 2     \* longest field.widgets array
MaxInstances == 2   \* widget instances constructed in one run
MaxRemoves == 1     \* calls of the public remove()
MaxErrors == 2      \* entries of the errors container

\* ------------------------------------------------------- JavaScript values
Undefined == [t |-> "undefined"]
Zero == [t |-> "number", v |-> "0"]
Str(s) == [t |-> "string", v |-> s]

\* Names looked up in the H5PEditor namespace.
Names == {"text", "html"}
\* Widget descriptors {name, label} a semantics file may declare.
Candidates ==
  { [name |-> "text", label |-> "Text"],
    [name |-> "html", label |-> "Html"],
    [name |-> "text", label |-> "Plain"] }
\* Default widgets a subclass passes to the constructor.
Defaults == { [name |-> "text", label |-> "Text"], [name |-> "html", label |-> "Html"] }
\* Messages passed to setError.
Messages == {"e1", "e2"}

RECURSIVE SeqsUpTo(_, _)
SeqsUpTo(S, n) ==
  IF n = 0 THEN { <<>> }
  ELSE LET shorter == SeqsUpTo(S, n - 1)
       IN shorter \cup { Append(s, x) : s \in shorter, x \in S }

\* Values of field.widgets: absent, a non-array, or an array of descriptors.
WidgetsValues ==
  {Undefined, Str("text")} \cup { [t |-> "array", v |-> s] : s \in SeqsUpTo(Candidates, MaxWidgets) }

Fields ==
  { [name |-> "title", type |-> "text", label |-> l, description |-> d, widgets |-> w] :
      l \in {Undefined, Zero, Str("Title")},
      d \in {Undefined, Str("about")},
      w \in WidgetsValues }

VARIABLES
  field,          \* constructor argument
  defaultWidget,  \* constructor argument
  H5PEditor,      \* the names the H5PEditor namespace resolves to a widget class
  phase,          \* "new" (constructor not yet run), "ready", "failed" (constructor threw)
  selfLabel,      \* self.label
  selfWidget,     \* self.widget: 0 is undefined, n the n-th instance constructed
  widgets,        \* the resolved widget list
  widgetSelect,   \* $widgetSelect: Undefined or the select element
  wrapper,        \* children of $wrapper, in document order
  container,      \* children of $container, in document order
  errors,         \* children of $errors: the messages rendered
  helpText,       \* text of $helpText
  log,            \* calls made to the widget classes, widget instances and self.trigger
  lastCall        \* the entry point that ran last and how it ended

vars ==
  << field, defaultWidget, H5PEditor, phase, selfLabel, selfWidget, widgets,
     widgetSelect, wrapper, container, errors, helpText, log, lastCall >>

\* -------------------------------------------------------------- log events
Ev(ev, id, name) == [ev |-> ev, id |-> id, name |-> name]

Positions(kind) == { p \in 1..Len(log) : log[p].ev = kind }
NumConstructed == Cardinality(Positions("new"))
\* The instances constructed and not yet released after the first k events.
LiveAfter(k) ==
  { log[p].id : p \in { q \in 1..k : log[q].ev = "new" } }
    \ { log[p].id : p \in { q \in 1..k : log[q].ev = "remove" } }
Live == LiveAfter(Len(log))
TypeOf(id) == log[CHOOSE p \in Positions("new") : log[p].id = id].name

Call(op, arg, threw) == [op |-> op, arg |-> arg, threw |-> threw, at |-> Len(log)]
\* The collaborator calls made by the entry point that ran last.
LastEvents == SubSeq(log, lastCall.at + 1, Len(log))

\* --------------------------------------------------------------- DOM helper
\* jQuery appendTo/append: the element becomes the last child; an element
\* that is already a child is moved, not duplicated.
AppendTo(el, parent) == SelectSeq(parent, LAMBDA x : x # el) \o <<el>>

\* ------------------------------------------------------------- getWidget
getWidget(name) == name \in H5PEditor

\* self.default is read by getValidWidgets and assigned nowhere.
selfDefault == Undefined

\* ------------------------------------------------------- getValidWidgets
\* Mutant: valid widgets collected with unshift instead of push.
RECURSIVE validWidgetsLoop_unshift(_, _, _)
validWidgetsLoop_unshift(declared, i, validWidgets) ==
  IF i > Len(declared) THEN validWidgets
  ELSE validWidgetsLoop_unshift(declared, i + 1,
         IF getWidget(declared[i].name) THEN <<declared[i]>> \o validWidgets
         ELSE validWidgets)

RECURSIVE validWidgetsLoop(_, _, _)
validWidgetsLoop(declared, i, validWidgets) ==
  IF i > Len(declared) THEN validWidgets
  ELSE validWidgetsLoop(declared, i + 1,
         IF getWidget(declared[i].name) THEN Append(validWidgets, declared[i])
         ELSE validWidgets)

\* Mutant: the instanceof Array test left out; a string's characters have no
\* name, so none is valid and the fallback entry is pushed.
getValidWidgets_noArrayCheck ==
  IF field.widgets = Undefined
  THEN [threw |-> FALSE, value |-> <<defaultWidget>>]
  ELSE IF field.widgets.t # "array"
  THEN [threw |-> FALSE, value |-> <<selfDefault>>]
  ELSE LET validWidgets == validWidgetsLoop(field.widgets.v, 1, <<>>)
       IN [threw |-> FALSE,
           value |-> IF Len(validWidgets) = 0
                     THEN Append(validWidgets, selfDefault)
                     ELSE validWidgets]

getValidWidgets ==
  IF field.widgets = Undefined
  THEN [threw |-> FALSE, value |-> <<defaultWidget>>]
  ELSE IF field.widgets.t # "array"
  THEN [threw |-> TRUE, value |-> <<>>]
  ELSE LET validWidgets == validWidgetsLoop(field.widgets.v, 1, <<>>)
       IN [threw |-> FALSE,
           value |-> IF Len(validWidgets) = 0
                     THEN Append(validWidgets, selfDefault)
                     ELSE validWidgets]

\* ------------------------------------------------------------ constructor
\* Mutant: the falsy test (field.label || field.name) instead of === undefined.
label_falsy == IF field.label \in {Undefined, Zero} THEN Str(field.name) ELSE field.label

\* self.label, line 25.
label == IF field.label = Undefined THEN Str(field.name) ELSE field.label

\* The select element init builds when more than one widget resolved.
createSelect(ws) ==
  IF Len(ws) > 1
  THEN [options |-> [i \in 1..Len(ws) |-> [value |-> ws[i].name, text |-> ws[i].label]],
        val |-> ws[1].name]
  ELSE Undefined

\* The label element init adds to the wrapper.
createWrapper == IF field.label # Zero THEN <<"label">> ELSE <<>>

SemanticStructure ==
  /\ phase = "new"
  /\ selfLabel' = label
  /\ LET r == getValidWidgets
     IN IF r.threw
        THEN /\ phase' = "failed"
             /\ lastCall' = Call("new", "", TRUE)
             /\ UNCHANGED <<widgets, widgetSelect, wrapper>>
        ELSE /\ phase' = "ready"
             /\ lastCall' = Call("new", "", FALSE)
             /\ widgets' = r.value
             /\ widgetSelect' = createSelect(r.value)
             /\ wrapper' = createWrapper
  /\ UNCHANGED <<field, defaultWidget, H5PEditor, selfWidget, container, errors, helpText, log>>

\* ------------------------------------------------------------ changeWidget
\* helpText of a widget instance: the html widget declares one, the text widget none.
widgetHelpText(name) == IF name = "html" THEN "help" ELSE ""

\* Mutant: the new instance is constructed before the old one is removed.
changeWidgetCalls_constructFirst(old, id, name) ==
  << Ev("new", id, name) >>
    \o (IF old # 0 THEN << Ev("remove", old, "changeWidget") >> ELSE <<>>)
    \o << Ev("trigger", id, "changeWidget"), Ev("appendTo", id, "") >>

\* Mutant: the event is triggered after the new widget is mounted.
changeWidgetCalls_triggerLast(old, id, name) ==
  (IF old # 0 THEN << Ev("remove", old, "changeWidget") >> ELSE <<>>)
    \o << Ev("new", id, name), Ev("appendTo", id, ""), Ev("trigger", id, "changeWidget") >>

\* Mutant: the old widget is never removed.
changeWidgetCalls_noRelease(old, id, name) ==
  << Ev("new", id, name), Ev("trigger", id, "changeWidget"), Ev("appendTo", id, "") >>

\* The collaborator calls of one completed changeWidget(name), in program order:
\* old is self.widget on entry, id the instance constructed.
changeWidgetCalls(old, id, name) ==
  (IF old # 0 THEN << Ev("remove", old, "changeWidget") >> ELSE <<>>)
    \o << Ev("new", id, name), Ev("trigger", id, "changeWidget"), Ev("appendTo", id, "") >>

\* $errors, $description and $helpText re-attached after the widget.
attachContainers(w) ==
  LET withErrors == AppendTo("errors", w)
      withDescription ==
        IF field.description # Undefined THEN AppendTo("description", withErrors)
        ELSE withErrors
  IN AppendTo("helpText", withDescription)

changeWidget(name) ==
  IF getWidget(name)
  THEN /\ log' = log \o changeWidgetCalls(selfWidget, NumConstructed + 1, name)
       /\ selfWidget' = NumConstructed + 1
       /\ wrapper' = attachContainers(wrapper)
       /\ helpText' = widgetHelpText(name)
  ELSE \* new undefined: TypeError, after the old widget was removed
       /\ log' = log \o (IF selfWidget # 0 THEN << Ev("remove", selfWidget, "changeWidget") >> ELSE <<>>)
       /\ UNCHANGED <<selfWidget, wrapper, helpText>>

\* ---------------------------------------------------------------- appendTo
\* Mutant: the last resolved widget is used instead of the first.
firstWidget_last == widgets[Len(widgets)]

\* The name appendTo hands to changeWidget.
firstWidget == widgets[1]

attachSelect(c) ==
  IF widgetSelect # Undefined THEN AppendTo("select", AppendTo("selectLabel", c)) ELSE c

appendTo ==
  /\ phase = "ready"
  /\ NumConstructed < MaxInstances
  /\ IF firstWidget = Undefined
     THEN \* widgets[0].name: TypeError
          /\ container' = attachSelect(container)
          /\ lastCall' = Call("appendTo", "", TRUE)
          /\ UNCHANGED <<selfWidget, wrapper, helpText, log>>
     ELSE /\ changeWidget(firstWidget.name)
          /\ IF getWidget(firstWidget.name)
             THEN /\ container' = AppendTo("wrapper", attachSelect(container))
                  /\ lastCall' = Call("appendTo", "", FALSE)
             ELSE /\ container' = attachSelect(container)
                  /\ lastCall' = Call("appendTo", "", TRUE)
  /\ UNCHANGED <<field, defaultWidget, H5PEditor, phase, selfLabel, widgets, widgetSelect, errors>>

\* ------------------------------------------------- $widgetSelect change
\* The operator picks an option of the select box shown in the container.
selectChange(value) ==
  /\ phase = "ready"
  /\ widgetSelect # Undefined
  /\ \E i \in 1..Len(container) : container[i] = "select"
  /\ \E i \in DOMAIN widgetSelect.options : widgetSelect.options[i].value = value
  /\ NumConstructed < MaxInstances
  /\ widgetSelect' = [widgetSelect EXCEPT !.val = value]
  /\ changeWidget(value)
  /\ lastCall' = Call("change", value, ~getWidget(value))
  /\ UNCHANGED <<field, defaultWidget, H5PEditor, phase, selfLabel, widgets, container, errors>>

\* ------------------------------------------------------------------ remove
\* Mutant: remove() releases the first instance ever constructed.
removeTarget_first == IF selfWidget = 0 THEN 0 ELSE 1

\* The instance the public remove() releases.
removeTarget == selfWidget

\* Completed calls of the public remove(): its release names its caller.
NumRemoveCalls ==
  Cardinality({ p \in 1..Len(log) : log[p].ev = "remove" /\ log[p].name = "remove" })

remove ==
  /\ phase = "ready"
  /\ NumRemoveCalls < MaxRemoves
  /\ IF selfWidget = 0
     THEN \* undefined.remove(): TypeError
          /\ lastCall' = Call("remove", "", TRUE)
          /\ UNCHANGED log
     ELSE /\ log' = Append(log, Ev("remove", removeTarget, "remove"))
          /\ lastCall' = Call("remove", "", FALSE)
  /\ UNCHANGED <<field, defaultWidget, H5PEditor, phase, selfLabel, selfWidget, widgets,
                 widgetSelect, wrapper, container, errors, helpText>>

\* ------------------------------------------------- setError / clearErrors
\* Mutant: setError replaces the content of the errors container.
setErrorResult_replace(message) == <<message>>

\* H5PEditor.createError(message) renders one entry showing the message.
setErrorResult(message) == Append(errors, message)

setError(message) ==
  /\ phase = "ready"
  /\ Len(errors) < MaxErrors
  /\ errors' = setErrorResult(message)
  /\ lastCall' = Call("setError", message, FALSE)
  /\ UNCHANGED <<field, defaultWidget, H5PEditor, phase, selfLabel, selfWidget, widgets,
                 widgetSelect, wrapper, container, helpText, log>>

clearErrorsResult == <<>>

clearErrors ==
  /\ phase = "ready"
  /\ errors' = clearErrorsResult
  /\ lastCall' = Call("clearErrors", "", FALSE)
  /\ UNCHANGED <<field, defaultWidget, H5PEditor, phase, selfLabel, selfWidget, widgets,
                 widgetSelect, wrapper, container, helpText, log>>

\* ----------------------------------------------------------------- getName
getName == field.name

\* ----------------------------------------------------------- specification
Init ==
  /\ field \in Fields
  /\ defaultWidget \in Defaults
  /\ H5PEditor \in SUBSET Names
  /\ phase = "new"
  /\ selfLabel = Undefined
  /\ selfWidget = 0
  /\ widgets = <<>>
  /\ widgetSelect = Undefined
  /\ wrapper = <<>>
  /\ container = <<>>
  /\ errors = <<>>
  /\ helpText = ""
  /\ log = <<>>
  /\ lastCall = [op |-> "none", arg |-> "", threw |-> FALSE, at |-> 0]

Next ==
  \/ SemanticStructure
  \/ appendTo
  \/ \E value \in Names : selectChange(value)
  \/ remove
  \/ \E message \in Messages : setError(message)
  \/ clearErrors

Spec == Init /\ [][Next]_vars

\* ------------------------------------------------------------- properties
\* The instance constructed last.
LastConstructed ==
  log[CHOOSE p \in Positions("new") : \A q \in Positions("new") : q <= p].id
Released == { log[p].id : p \in Positions("remove") }
NumEvents == Cardinality(Positions("trigger"))
Returned(ops) == lastCall.op \in ops /\ ~lastCall.threw
DeclaredArray == field.widgets # Undefined /\ field.widgets.t = "array"
Registered(w) == w.name \in H5PEditor

\* C1: once appendTo has returned, self.widget is the one live widget
\* instance, it was constructed by that call, and its type is the one named by
\* the first entry of the resolved widget list.
C1_AppendToMountsFirst ==
  Returned({"appendTo"}) =>
    /\ selfWidget # 0
    /\ Live = {selfWidget}
    /\ \E p \in (lastCall.at + 1)..Len(log) : log[p] = Ev("new", selfWidget, widgets[1].name)

C1_Witness ==
  /\ Returned({"appendTo"})
  /\ Len(widgets) = 2
  /\ widgets[1].name # widgets[2].name

\* C2: in the order of the calls made to the widgets, an instance is released
\* before the next one is constructed, so after every call at most one
\* instance is live.
C2_ReleaseBeforeConstruct ==
  /\ \A k \in 0..Len(log) : Cardinality(LiveAfter(k)) <= 1
  /\ \A p \in Positions("new") : \A q \in Positions("new") :
       q < p => \E r \in Positions("remove") : q < r /\ r < p /\ log[r].id = log[q].id

C2_Witness ==
  /\ Returned({"change"})
  /\ NumConstructed = 2
  /\ TypeOf(1) # TypeOf(2)
  /\ Live = {2}

\* C3: when field.widgets is an array none of whose entries names a registered
\* widget, the resolved list is the single default widget passed to the
\* constructor, and appendTo then mounts that widget.
C3_FallbackIsDefault ==
  (phase = "ready" /\ DeclaredArray
     /\ \A i \in 1..Len(field.widgets.v) : ~Registered(field.widgets.v[i])) =>
    /\ widgets = <<defaultWidget>>
    /\ (lastCall.op = "appendTo" /\ Registered(defaultWidget)) =>
         /\ ~lastCall.threw
         /\ selfWidget # 0
         /\ TypeOf(selfWidget) = defaultWidget.name

\* C4: when field.widgets is defined and not an array the constructor throws:
\* no field wrapper exists, no widget was constructed and no event emitted.
C4_NonArrayThrows ==
  (phase # "new" /\ field.widgets # Undefined /\ field.widgets.t # "array") =>
    /\ phase = "failed"
    /\ lastCall.op = "new" /\ lastCall.threw
    /\ selfWidget = 0
    /\ log = <<>>
    /\ widgets = <<>> /\ wrapper = <<>> /\ container = <<>>

C4_Witness == phase = "failed" /\ field.widgets = Str("text")

\* C5: without field.widgets the resolved list is the default widget alone;
\* with an array naming at least one registered widget it is the subsequence
\* of the declared entries whose name is registered, order and labels kept.
C5_ResolutionMatchesReference ==
  phase = "ready" =>
    /\ field.widgets = Undefined => widgets = <<defaultWidget>>
    /\ (DeclaredArray /\ \E i \in 1..Len(field.widgets.v) : Registered(field.widgets.v[i])) =>
         widgets = SelectSeq(field.widgets.v, Registered)

C5_Witness ==
  /\ phase = "ready"
  /\ DeclaredArray
  /\ Len(widgets) = 2
  /\ widgets[1].name # widgets[2].name
  /\ widgets = field.widgets.v

\* C6: setError appends its message to the entries of the errors container,
\* clearErrors leaves none, and no other operation (a widget change
\* included) alters them; so the container holds the messages set since the
\* last clearErrors, in call order.
C6_ErrorsAccumulate ==
  [][ /\ lastCall'.op = "setError" => errors' = Append(errors, lastCall'.arg)
      /\ lastCall'.op = "clearErrors" => errors' = <<>>
      /\ lastCall'.op \notin {"setError", "clearErrors"} => errors' = errors ]_vars

C6_Witness ==
  /\ Returned({"change"})
  /\ Len(errors) = 2
  /\ errors[1] # errors[2]

\* C7: remove() on a mounted field releases the active widget instance, the
\* one constructed last, and nothing else; afterwards no instance is live.
C7_RemoveReleasesActive ==
  Returned({"remove"}) =>
    /\ LastEvents = << Ev("remove", selfWidget, "remove") >>
    /\ selfWidget = LastConstructed
    /\ Live = {}

C7_Witness ==
  /\ Returned({"remove"})
  /\ NumConstructed = 2
  /\ TypeOf(1) # TypeOf(2)

\* C8 as stated: with field.label the suppress marker 0 the wrapper has no
\* label element and self.label is field.name.
C8_LabelIsName ==
  (phase = "ready" /\ field.label = Zero) =>
    /\ \A i \in 1..Len(wrapper) : wrapper[i] # "label"
    /\ selfLabel = Str(field.name)

\* C8 amended: with field.label the suppress marker 0 the wrapper has no
\* label element and self.label is the marker 0 itself.
C8_LabelIsMarker ==
  (phase = "ready" /\ field.label = Zero) =>
    /\ \A i \in 1..Len(wrapper) : wrapper[i] # "label"
    /\ selfLabel = Zero

C8_Witness == phase = "ready" /\ field.label = Zero /\ selfWidget # 0

\* C9: every construction of a widget is followed at once by one changeWidget
\* event that sees the new instance as self.widget, and then by the mounting
\* of that instance; events and constructions are equal in number; a widget
\* change that returned made exactly these calls, after releasing the old
\* instance.
C9_OneEventPerChange ==
  /\ NumEvents = NumConstructed
  /\ \A p \in Positions("new") :
       /\ p + 2 <= Len(log)
       /\ log[p + 1] = Ev("trigger", log[p].id, "changeWidget")
       /\ log[p + 2] = Ev("appendTo", log[p].id, "")
  /\ \A p \in Positions("trigger") : p > 1 /\ log[p - 1].ev = "new"
  /\ Returned({"appendTo", "change"}) =>
       /\ Cardinality({ p \in (lastCall.at + 1)..Len(log) : log[p].ev = "trigger" }) = 1
       /\ \A p \in (lastCall.at + 1)..Len(log) : \A q \in (lastCall.at + 1)..Len(log) :
            (log[p].ev = "remove" /\ log[q].ev = "trigger") => p < q
       /\ log[Len(log) - 1] = Ev("trigger", selfWidget, "changeWidget")

C9_Witness ==
  /\ Returned({"change"})
  /\ NumEvents = 2
  /\ Released = {1}

\* A step in which appendTo returns right after appendTo returned.
SecondAppendTo ==
  /\ lastCall.op = "appendTo" /\ ~lastCall.threw
  /\ lastCall'.op = "appendTo" /\ ~lastCall'.threw

\* C10 as stated: a second appendTo in a row changes nothing observable: same
\* active widget type, one live instance, same errors, no further release and
\* no further changeWidget event.
C10_SecondAppendToInvisible ==
  [][ SecondAppendTo =>
        /\ TypeOf(selfWidget)' = TypeOf(selfWidget)
        /\ Cardinality(Live') = 1
        /\ errors' = errors
        /\ Released' = Released
        /\ NumEvents' = NumEvents ]_vars

\* C10 amended: a second appendTo in a row keeps the active widget type, the
\* errors and the layout of wrapper and container, and leaves one live
\* instance; it releases the instance the first call constructed, constructs
\* a new one and emits one more changeWidget event.
C10_SecondAppendToReplaces ==
  [][ SecondAppendTo =>
        /\ TypeOf(selfWidget)' = TypeOf(selfWidget)
        /\ TypeOf(selfWidget)' = widgets[1].name
        /\ Live' = {selfWidget'}
        /\ errors' = errors
        /\ wrapper' = wrapper /\ container' = container /\ helpText' = helpText
        /\ selfWidget' # selfWidget
        /\ selfWidget \notin Released
        /\ Released' = Released \cup {selfWidget}
        /\ NumEvents' = NumEvents + 1 ]_vars

C10_Witness ==
  /\ Returned({"appendTo"})
  /\ widgetSelect = Undefined
  /\ NumConstructed = 2
  /\ NumRemoveCalls = 0
  /\ Released = {1}

====
